---- MODULE Spec2Model ----
(***************************************************************************)
(* Model of the Silverpop API client (silverpop/api.py): the session       *)
(* state of class API, the login exchange, and the request submitter       *)
(* _submit_request with its single expired-session retry.                  *)
(*                                                                         *)
(* Python values are tagged records, so that the dynamic type tests of     *)
(* the code (.get on a dict, truthiness, %s formatting) can be modelled:   *)
(*   [none |-> TRUE]               None                                    *)
(*   [str  |-> "abc"]              a string                                *)
(*   [int  |-> 140]                an integer                              *)
(*   [map  |-> << <<k, v>>, .. >>] a dict, in insertion order              *)
(*   [list |-> << v, .. >>]        a list                                  *)
(* An XML element is [tag, text, children]; a request body is the string   *)
(* ElementTree.tostring produces.                                          *)
(***************************************************************************)
EXTENDS Integers, Sequences, FiniteSets, TLC

VARIABLES
    client,     \* the API object: url, username, password, sessionid
    ctor,       \* position of API.__init__: "new", "login", "ready", "failed"
    ctorArgs,   \* the arguments __init__ was called with
    ctorLog,    \* requests dispatched by __init__ (its login exchange)
    ctorGot,    \* replies to the requests of __init__
    pure,       \* the argument and the results of a function applied on its own
    call,       \* per thread: the _submit_request call in progress
    ncalls,     \* number of external calls started so far
    loginsOk    \* number of login exchanges that returned a session id

vars == <<client, ctor, ctorArgs, ctorLog, ctorGot, pure, call, ncalls, loginsOk>>

(* Bounds of the model *)
MaxCalls == 2

\* the threads that may call the client; Spec runs the calls of one thread
Threads == {1, 2}
MainThread == 1

-----------------------------------------------------------------------------
(* Python values *)

PyNone == [none |-> TRUE]
PyStr(s) == [str |-> s]
PyInt(i) == [int |-> i]
PyMap(kv) == [map |-> kv]
PyList(items) == [list |-> items]
EmptyDict == PyMap(<<>>)

IsNone(v) == "none" \in DOMAIN v
IsStr(v) == "str" \in DOMAIN v
IsInt(v) == "int" \in DOMAIN v
IsMap(v) == "map" \in DOMAIN v
IsList(v) == "list" \in DOMAIN v

\* bool(v)
Truthy(v) ==
    CASE IsNone(v) -> FALSE
      [] IsStr(v) -> v.str # ""
      [] IsInt(v) -> v.int # 0
      [] IsMap(v) -> Len(v.map) > 0
      [] IsList(v) -> Len(v.list) > 0

\* '%s' % v and str(v)
PyFormat(v) ==
    CASE IsNone(v) -> "None"
      [] IsStr(v) -> v.str
      [] IsInt(v) -> ToString(v.int)
      [] OTHER -> "{...}"

HasKey(d, k) == \E i \in DOMAIN d.map : d.map[i][1] = k

\* d[k] for a dict d that has the key k (the last assignment wins)
Item(d, k) ==
    LET idx == {i \in DOMAIN d.map : d.map[i][1] = k}
    IN  d.map[CHOOSE i \in idx : \A j \in idx : j <= i][2]

\* d.get(k, default)
Get(d, k, default) == IF HasKey(d, k) THEN Item(d, k) ELSE default

\* the characters of the strings that str.lower is applied to; a string
\* without upper-case letters may stand as one unit
Chars(s) ==
    CASE s = "TRUE" -> <<"T", "R", "U", "E">>
      [] s = "true" -> <<"t", "r", "u", "e">>
      [] s = "tRuE" -> <<"t", "R", "u", "E">>
      [] s = "FALSE" -> <<"F", "A", "L", "S", "E">>
      [] s = "false" -> <<"f", "a", "l", "s", "e">>
      [] s = "SUCCESS" -> <<"S", "U", "C", "C", "E", "S", "S">>
      [] s = "Success" -> <<"S", "u", "c", "c", "e", "s", "s">>
      [] s = "success" -> <<"s", "u", "c", "c", "e", "s", "s">>
      [] s = "YES" -> <<"Y", "E", "S">>
      [] s = "yes" -> <<"y", "e", "s">>
      [] OTHER -> <<s>>

\* the lower-case form of one character
LowerChar(ch) ==
    CASE ch = "A" -> "a" [] ch = "C" -> "c" [] ch = "E" -> "e"
      [] ch = "F" -> "f" [] ch = "L" -> "l" [] ch = "R" -> "r"
      [] ch = "S" -> "s" [] ch = "T" -> "t" [] ch = "U" -> "u"
      [] ch = "Y" -> "y"
      [] OTHER -> ch

RECURSIVE LowerAll(_)
LowerAll(chars) ==
    IF Len(chars) = 0 THEN ""
    ELSE LowerChar(Head(chars)) \o LowerAll(Tail(chars))

\* s.lower()
Lower(s) == LowerAll(Chars(s))

-----------------------------------------------------------------------------
(* XML elements and the codec (silverpop/xml.py) *)

Elem(tag, children) == [tag |-> tag, text |-> "", children |-> children]
Leaf(tag, text) == [tag |-> tag, text |-> text, children |-> <<>>]

RECURSIVE SerializeAll(_)
RECURSIVE Serialize(_)
\* ElementTree.tostring(element)
Serialize(e) ==
    IF Len(e.children) = 0 /\ e.text = ""
    THEN "<" \o e.tag \o " />"
    ELSE "<" \o e.tag \o ">" \o e.text \o SerializeAll(e.children)
             \o "</" \o e.tag \o ">"
SerializeAll(es) ==
    IF Len(es) = 0 THEN "" ELSE Serialize(Head(es)) \o SerializeAll(Tail(es))

RECURSIVE EncodeItems(_, _)
RECURSIVE EncodePairs(_)
RECURSIVE EncodeElement(_, _)
\* encode: one element named tag holding value
EncodeElement(tag, value) ==
    IF IsMap(value)
    THEN Elem(tag, EncodePairs(value.map))
    ELSE Leaf(tag, PyFormat(value))
\* the children of a mapping: a sequence value gives one sibling per item
EncodePairs(pairs) ==
    IF Len(pairs) = 0 THEN <<>>
    ELSE LET k == Head(pairs)[1]
             v == Head(pairs)[2]
         IN  (IF IsList(v) THEN EncodeItems(k, v.list)
                           ELSE <<EncodeElement(k, v)>>)
             \o EncodePairs(Tail(pairs))
EncodeItems(tag, items) ==
    IF Len(items) = 0 THEN <<>>
    ELSE <<EncodeElement(tag, Head(items))>> \o EncodeItems(tag, Tail(items))

\* ConvertDictToXml(xmldict): the root element is named by the dict's key;
\* a value that is no dict has no root key and cannot be encoded.
ConvertDictToXml(xmldict) ==
    IF IsMap(xmldict) /\ Len(xmldict.map) >= 1
    THEN [ok |-> TRUE,
          elem |-> EncodeElement(xmldict.map[1][1], xmldict.map[1][2])]
    ELSE [ok |-> FALSE]

\* the distinct tags of a sequence of elements, in first-occurrence order
RECURSIVE TagsOf(_)
TagsOf(es) ==
    IF Len(es) = 0 THEN <<>>
    ELSE LET rest == TagsOf(SelectSeq(Tail(es), LAMBDA x : x.tag # Head(es).tag))
         IN  <<Head(es).tag>> \o rest

\* a faulty variant of GroupValue: every group decodes to a sequence
GroupValue_AlwaysList(values) == PyList(values)

\* the decoded value of the children sharing one tag
GroupValue(values) ==
    IF Len(values) = 1 THEN values[1] ELSE PyList(values)

RECURSIVE DecodeElement(_)
\* decode: a leaf is its text; a non-leaf is a mapping of its children
\* grouped by tag, a group of one being the child itself
DecodeElement(e) ==
    IF Len(e.children) = 0
    THEN PyStr(e.text)
    ELSE LET tags == TagsOf(e.children)
             Group(k) == SelectSeq(e.children, LAMBDA x : x.tag = k)
             Value(k) ==
                 GroupValue([i \in 1..Len(Group(k)) |->
                                DecodeElement(Group(k)[i])])
         IN  PyMap([i \in 1..Len(tags) |-> <<tags[i], Value(tags[i])>>])

\* a faulty variant of ConvertXmlToDict: the root tag is dropped
ConvertXmlToDict_NoRoot(doc) == DecodeElement(doc)

\* ConvertXmlToDict(content, dict): a one-entry mapping keyed by the root tag
ConvertXmlToDict(doc) == PyMap(<< <<doc.tag, DecodeElement(doc)>> >>)

-----------------------------------------------------------------------------
(* Outcomes of a call: what it returns or raises *)

Raise(e) == [kind |-> "raise", exc |-> e]
RaiseFault(f) == [kind |-> "raise", exc |-> "ResponseException", fault |-> f]
Return(result, success) ==
    [kind |-> "return", result |-> result, success |-> success]
Retry == [kind |-> "retry"]
NoOutcome == [kind |-> "none"]

\* a faulty variant of SetItem: the other keys of d are lost
SetItem_DropOthers(d, k, v) == PyMap(<< <<k, v>> >>)

\* d[k] = v
SetItem(d, k, v) ==
    IF HasKey(d, k)
    THEN PyMap([i \in DOMAIN d.map |->
                   IF d.map[i][1] = k THEN <<k, v>> ELSE d.map[i]])
    ELSE PyMap(Append(d.map, <<k, v>>))

\* len(v)
PyLen(v) == IF IsMap(v) THEN Len(v.map) ELSE IF IsList(v) THEN Len(v.list) ELSE 0

IsColumn(c) == IsMap(c) /\ HasKey(c, "NAME") /\ HasKey(c, "VALUE")
                        /\ IsStr(Item(c, "NAME"))

RECURSIVE ColumnsToDict(_, _)
\* for column in columns: out[column['NAME']] = column['VALUE']
ColumnsToDict(columns, out) ==
    IF Len(columns) = 0 THEN out
    ELSE ColumnsToDict(Tail(columns),
             SetItem(out, Item(Head(columns), "NAME").str,
                          Item(Head(columns), "VALUE")))

\* API._sanitize_columns_in_api_result(data)
sanitize_columns_in_api_result(data) ==
    IF ~IsMap(data) THEN Raise("AttributeError")
    ELSE LET cols == Get(data, "COLUMNS", EmptyDict) IN
    IF ~IsMap(cols) THEN Raise("AttributeError")
    ELSE LET columns == Get(cols, "COLUMN", PyList(<<>>)) IN
    IF IsStr(columns)
    THEN IF columns.str = "" THEN Return(data, TRUE) ELSE Raise("TypeError")
    ELSE IF PyLen(columns) < 1 THEN Return(data, TRUE)
    ELSE IF IsMap(columns)
    THEN IF IsColumn(columns)
         THEN Return(SetItem(data, "COLUMNS",
                  SetItem(EmptyDict, Item(columns, "NAME").str,
                                     Item(columns, "VALUE"))), TRUE)
         ELSE Raise("KeyError")
    ELSE IF \A i \in DOMAIN columns.list : IsColumn(columns.list[i])
         THEN Return(SetItem(data, "COLUMNS",
                  ColumnsToDict(columns.list, EmptyDict)), TRUE)
         ELSE Raise("KeyError")

-----------------------------------------------------------------------------
(* API._submit_request *)

\* the code of an expired session (line 496)
SESSION_EXPIRED == 140

\* lines 468-471: the request body, encoded unless raw_xml
RequestBody(xml_dict, raw_xml) ==
    IF ~raw_xml
    THEN LET e == ConvertDictToXml(xml_dict)
         IN  IF e.ok THEN [ok |-> TRUE, body |-> Serialize(e.elem)]
                     ELSE [ok |-> FALSE]
    ELSE [ok |-> TRUE, body |-> PyFormat(xml_dict)]

\* a faulty variant of RequestUrl: the session id is appended to every URL
RequestUrl_AlwaysSession(url, sessionid, auth) ==
    url \o ";jsessionid=" \o PyFormat(sessionid)

\* line 473: the target URL
RequestUrl(url, sessionid, auth) ==
    IF ~auth THEN url \o ";jsessionid=" \o PyFormat(sessionid) ELSE url

\* a faulty variant of IsSuccess: the value is compared as it is
IsSuccess_CaseSensitive(success_value) == success_value \in {"true", "success"}

\* line 487: the success flag of a response body tree
IsSuccess(success_value) == Lower(success_value) \in {"true", "success"}

\* a faulty variant of RetryTaken: any fault with an errorid is retried
RetryTaken_AnyErrorId(error_id, retry) ==
    error_id # PyNone /\ retry

\* line 496: the expired-session retry is taken
RetryTaken(error_id, retry) ==
    error_id = PyStr(ToString(SESSION_EXPIRED)) /\ retry

\* lines 490-502: a failed response
OnFailure(response, retry, auth) ==
    IF ~HasKey(response, "Fault") THEN Raise("KeyError")
    ELSE LET fault == Item(response, "Fault") IN
    IF ~IsMap(fault) THEN Raise("AttributeError")
    ELSE LET detail == Get(fault, "detail", EmptyDict) IN
    IF ~IsMap(detail) THEN Raise("AttributeError")
    ELSE LET error == Get(detail, "error", EmptyDict) IN
    IF ~IsMap(error) THEN Raise("AttributeError")
    ELSE LET error_id == Get(error, "errorid", PyNone) IN
    IF RetryTaken(error_id, retry) THEN Retry
    ELSE IF auth THEN NoOutcome
    ELSE RaiseFault(fault)

\* line 504: the value returned
OnReturn(response, success) ==
    IF ~HasKey(response, "RESULT") THEN Raise("KeyError")
    ELSE LET r == sanitize_columns_in_api_result(Item(response, "RESULT"))
         IN  IF r.kind = "raise" THEN r ELSE Return(r.result, success)

\* a faulty variant of TransportFailure: raise_for_status is not called
TransportFailure_NoStatusCheck(reply) == reply.exc

\* lines 478-479: the exception requests.post or raise_for_status raises,
\* "" when there is none
TransportFailure(reply) ==
    IF reply.exc # "" THEN reply.exc
    ELSE IF reply.status >= 400 /\ reply.status < 600 THEN "HTTPError"
    ELSE ""

\* lines 478-504: what _submit_request does with the transport's reply
AfterPost(reply, retry, auth) ==
    IF TransportFailure(reply) # "" THEN Raise(TransportFailure(reply))
    ELSE LET envelope == Get(ConvertXmlToDict(reply.content), "Envelope", EmptyDict) IN
    IF ~IsMap(envelope) THEN Raise("AttributeError")
    ELSE LET response == Get(envelope, "Body", PyNone) IN
    IF ~IsMap(response) THEN Raise("AttributeError")
    ELSE LET result == Get(response, "RESULT", EmptyDict) IN
    IF ~IsMap(result) THEN Raise("AttributeError")
    ELSE LET success_value == Get(result, "SUCCESS", PyStr("false")) IN
    IF ~IsStr(success_value) THEN Raise("AttributeError")
    ELSE LET success == IsSuccess(success_value.str) IN
    IF ~success
    THEN LET f == OnFailure(response, retry, auth)
         IN  IF f.kind = "none" THEN OnReturn(response, success) ELSE f
    ELSE OnReturn(response, success)

\* a faulty variant of ResubmitArgs: the resubmission keeps the retry flag
ResubmitArgs_KeepRetry(frame) ==
    [xml_dict |-> frame.xml_dict, retry |-> frame.retry, auth |-> FALSE,
     raw_xml |-> FALSE]

\* line 498: the arguments of the resubmission
ResubmitArgs(frame) ==
    [xml_dict |-> frame.xml_dict, retry |-> FALSE, auth |-> FALSE,
     raw_xml |-> FALSE]

-----------------------------------------------------------------------------
(* API.login *)

\* line 25
HasCredentials(c) == Truthy(c.username) /\ Truthy(c.password)

\* API._get_xml_document with Envelope.Body set
get_xml_document(body) ==
    PyMap(<< <<"Envelope", PyMap(<< <<"Body", body>> >>)>> >>)

\* lines 27-28
LoginPayload(c) ==
    get_xml_document(PyMap(<< <<"Login",
        PyMap(<< <<"USERNAME", c.username>>, <<"PASSWORD", c.password>> >>)>> >>))

\* line 30: the arguments of the login's submission
LoginArgs(c) ==
    [xml_dict |-> LoginPayload(c), retry |-> FALSE, auth |-> TRUE,
     raw_xml |-> FALSE]

\* a faulty variant of LoginResult: a missing session id is returned as None
\* instead of raising AuthException
LoginResult_NoRaise(out) ==
    IF out.kind # "return" THEN out
    ELSE [kind |-> "return",
          value |-> IF out.success THEN Get(out.result, "SESSIONID", PyNone)
                                   ELSE PyNone]

\* lines 31-38: what login does with the outcome of its submission
LoginResult(out) ==
    IF out.kind # "return" THEN out
    ELSE LET sessionid == IF out.success
                          THEN Get(out.result, "SESSIONID", PyNone)
                          ELSE PyNone
         IN  IF ~Truthy(sessionid) THEN Raise("AuthException")
             ELSE [kind |-> "return", value |-> sessionid]

-----------------------------------------------------------------------------
(* Inputs: constructor arguments, payloads, and the transport's replies *)

Endpoint == "https://api.example/XMLAPI"

Usernames == {PyNone, PyStr("u")}
Passwords == {PyNone, PyStr("p")}
SuppliedSessionIds == {PyNone, PyStr(""), PyStr("old")}

\* API.calculate_query(7): a payload tree
QueryPayload ==
    get_xml_document(PyMap(<< <<"CalculateQuery",
        PyMap(<< <<"QUERY_ID", PyInt(7)>> >>)>> >>))

\* API.logout: a pre-formed raw XML document
LogoutXml == PyStr("<Envelope><Body><Logout/></Body></Envelope>")

\* the (xml_dict, raw_xml) pairs endpoint methods pass
Requests ==
    {[xml_dict |-> QueryPayload, raw_xml |-> FALSE],
     [xml_dict |-> LogoutXml, raw_xml |-> TRUE]}

Envelope(body) == Elem("Envelope", <<Elem("Body", body)>>)
FaultOf(errorid) ==
    Elem("Fault", <<Leaf("FaultString", "failed"),
         Elem("detail", <<Elem("error", <<Leaf("errorid", errorid)>>)>>)>>)
FaultPlain == Elem("Fault", <<Leaf("FaultString", "failed")>>)
ResultOf(fields) == Elem("RESULT", fields)

\* response documents the server may send
Documents ==
    {Envelope(<<ResultOf(<<Leaf("SUCCESS", "TRUE")>>)>>),
     Envelope(<<ResultOf(<<Leaf("SUCCESS", "true"), Leaf("SESSIONID", "abc123")>>)>>),
     Envelope(<<ResultOf(<<Leaf("SUCCESS", "SUCCESS"), Leaf("SESSIONID", "old")>>)>>),
     Envelope(<<ResultOf(<<Leaf("SUCCESS", "TRUE"), Leaf("SESSIONID", "")>>)>>),
     Envelope(<<ResultOf(<<Leaf("SUCCESS", "FALSE")>>), FaultOf("140")>>),
     Envelope(<<FaultOf("140")>>),
     Envelope(<<ResultOf(<<Leaf("SUCCESS", "false"), Leaf("SESSIONID", "abc123")>>),
                FaultOf("145")>>),
     Envelope(<<ResultOf(<<Leaf("SUCCESS", "false")>>), FaultPlain>>),
     Envelope(<<ResultOf(<<Leaf("SUCCESS", "false")>>)>>),
     Envelope(<<ResultOf(<<Leaf("SESSIONID", "abc123")>>), FaultOf("145")>>),
     Envelope(<<ResultOf(<<Leaf("SUCCESS", "tRuE")>>)>>),
     Envelope(<<ResultOf(<<Leaf("SUCCESS", "Success"), Leaf("SESSIONID", "abc123")>>)>>),
     Envelope(<<ResultOf(<<Leaf("SUCCESS", "1")>>), FaultPlain>>),
     Envelope(<<ResultOf(<<Leaf("SUCCESS", "yes"), Leaf("SESSIONID", "abc123")>>),
                FaultOf("145")>>),
     Envelope(<<ResultOf(<<Leaf("SUCCESS", "")>>), FaultOf("140")>>),
     Elem("html", <<Leaf("body", "moved")>>)}

NoDocument == Leaf("", "")

\* what requests.post and raise_for_status can give
Replies ==
    {[exc |-> "", status |-> 200, content |-> d] : d \in Documents}
    \cup {[exc |-> "", status |-> 404, content |-> NoDocument],
          [exc |-> "", status |-> 500, content |-> NoDocument],
          [exc |-> "ConnectionError", status |-> 0, content |-> NoDocument]}

-----------------------------------------------------------------------------
(* State *)

NoValue == [unset |-> TRUE]

IdleCall ==
    [phase |-> "idle", frame |-> NoValue, ext |-> NoValue, depth |-> 0,
     sent |-> <<>>, got |-> <<>>, loginRet |-> NoValue, loginNo |-> 0,
     tok0 |-> NoValue, outcome |-> NoOutcome]

\* one request on the wire: what was posted where, and the session id the
\* client held when it was posted
Request(kind, args, url, body, sessionid) ==
    [kind |-> kind, auth |-> args.auth, retry |-> args.retry, url |-> url,
     body |-> body, sessionid |-> sessionid]

\* lines 468-478 for the call with arguments args: the request posted, or
\* the failure to encode it
Post(kind, args, c) ==
    LET b == RequestBody(args.xml_dict, args.raw_xml)
    IN  IF b.ok
        THEN [ok |-> TRUE,
              request |-> Request(kind, args,
                                  RequestUrl(c.url, c.sessionid, args.auth),
                                  b.body, c.sessionid)]
        ELSE [ok |-> FALSE]

\* what the n-th reply of a call was, as far as the claims need it
Summary(reply, out) ==
    [exc |-> reply.exc, status |-> reply.status, out |-> out,
     body |-> IF reply.exc = "" /\ reply.status = 200
              THEN Get(Get(ConvertXmlToDict(reply.content), "Envelope", EmptyDict),
                       "Body", PyNone)
              ELSE PyNone]

Init ==
    /\ client = [url |-> Endpoint, username |-> PyNone, password |-> PyNone,
                 sessionid |-> PyNone]
    /\ ctor = "new"
    /\ ctorArgs = NoValue
    /\ ctorLog = <<>>
    /\ ctorGot = <<>>
    /\ pure = NoValue
    /\ call = [t \in Threads |-> IdleCall]
    /\ ncalls = 0
    /\ loginsOk = 0

-----------------------------------------------------------------------------
(* API.__init__ *)

\* a faulty variant of UsesSupplied: __init__ always logs in
UsesSupplied_Never(sessionid) == FALSE

\* line 20: the supplied session id is kept
UsesSupplied(sessionid) == Truthy(sessionid)

\* lines 16-20, up to the reply of the login exchange when there is one
Construct(username, password, sessionid) ==
    /\ ctor = "new"
    /\ LET c == [url |-> Endpoint, username |-> username,
                 password |-> password, sessionid |-> PyNone]
       IN  IF UsesSupplied(sessionid)
           THEN /\ client' = [c EXCEPT !.sessionid = sessionid]
                /\ ctor' = "ready"
                /\ ctorLog' = ctorLog
           ELSE IF ~HasCredentials(c)
           THEN \* login() returns None
                /\ client' = c
                /\ ctor' = "ready"
                /\ ctorLog' = ctorLog
           ELSE /\ client' = c
                /\ ctor' = "login"
                /\ ctorLog' = Append(ctorLog, Post("login", LoginArgs(c), c).request)
    /\ ctorArgs' = [username |-> username, password |-> password,
                     sessionid |-> sessionid]
    /\ UNCHANGED <<ctorGot, pure, call, ncalls, loginsOk>>

\* lines 30-38 and 20: the login exchange of the constructor ends
ConstructLoginReply(reply) ==
    /\ ctor = "login"
    /\ LET args == LoginArgs(client)
           out == AfterPost(reply, args.retry, args.auth)
           r == LoginResult(out)
       IN  /\ ctorGot' = Append(ctorGot, Summary(reply, out))
           /\ IF out.kind = "retry"
              THEN \* a nested login
                   /\ ctorLog' = Append(ctorLog, Post("login", args, client).request)
                   /\ UNCHANGED <<client, ctor, loginsOk>>
              ELSE IF r.kind = "return"
              THEN /\ client' = [client EXCEPT !.sessionid = r.value]
                   /\ ctor' = "ready"
                   /\ loginsOk' = loginsOk + 1
                   /\ ctorLog' = ctorLog
              ELSE /\ ctor' = "failed"
                   /\ UNCHANGED <<client, ctorLog, loginsOk>>
    /\ UNCHANGED <<ctorArgs, pure, call, ncalls>>

-----------------------------------------------------------------------------
(* One call of _submit_request by thread t *)

\* lines 468-478: an endpoint method calls _submit_request; the request is
\* encoded and posted
Submit(t, req, retry, auth) ==
    /\ ctor = "ready"
    /\ call[t].phase = "idle"
    /\ ncalls < MaxCalls
    /\ ncalls' = ncalls + 1
    /\ LET args == [xml_dict |-> req.xml_dict, retry |-> retry, auth |-> auth,
                    raw_xml |-> req.raw_xml]
           p == Post("submit", args, client)
       IN  call' = [call EXCEPT ![t] =
                [IdleCall EXCEPT !.phase = "wait", !.frame = args, !.ext = args,
                                 !.sent = <<p.request>>,
                                 !.tok0 = client.sessionid]]
    /\ UNCHANGED <<client, ctor, ctorArgs, ctorLog, ctorGot, pure, loginsOk>>

\* a faulty variant of StoreToken: the session id of the re-login is dropped
StoreToken_Dropped(c, sessionid) == c

\* line 497: self.sessionid = self.login()
StoreToken(c, sessionid) == [c EXCEPT !.sessionid = sessionid]

\* lines 478-504: the reply to the posted request arrives; on the retry
\* branch login() begins (lines 22-30)
Reply(t, reply) ==
    /\ call[t].phase = "wait"
    /\ LET f == call[t].frame
           out == AfterPost(reply, f.retry, f.auth)
           got == Append(call[t].got, Summary(reply, out))
       IN  IF out.kind # "retry"
           THEN /\ call' = [call EXCEPT ![t].phase = "done", ![t].outcome = out,
                                        ![t].got = got]
                /\ UNCHANGED client
           ELSE IF ~HasCredentials(client)
           THEN \* login() returns None, which line 497 stores
                /\ client' = StoreToken(client, PyNone)
                /\ call' = [call EXCEPT ![t].phase = "resubmit", ![t].got = got,
                                        ![t].loginRet = PyNone]
           ELSE /\ call' = [call EXCEPT ![t].phase = "login", ![t].got = got,
                       ![t].sent = Append(@, Post("login", LoginArgs(client),
                                                  client).request)]
                /\ UNCHANGED client
    /\ UNCHANGED <<ctor, ctorArgs, ctorLog, ctorGot, pure, ncalls, loginsOk>>

\* lines 30-38 and 497: the reply to the re-login arrives; the session id it
\* yields is stored
LoginReply(t, reply) ==
    /\ call[t].phase = "login"
    /\ LET args == LoginArgs(client)
           out == AfterPost(reply, args.retry, args.auth)
           r == LoginResult(out)
           got == Append(call[t].got, Summary(reply, out))
       IN  IF out.kind = "retry"
           THEN \* a nested login
                /\ call' = [call EXCEPT ![t].got = got,
                       ![t].sent = Append(@, Post("login", args, client).request)]
                /\ UNCHANGED <<client, loginsOk>>
           ELSE IF r.kind = "return"
           THEN /\ client' = StoreToken(client, r.value)
                /\ loginsOk' = loginsOk + 1
                /\ call' = [call EXCEPT ![t].phase = "resubmit", ![t].got = got,
                                        ![t].loginRet = r.value,
                                        ![t].loginNo = loginsOk + 1]
           ELSE /\ call' = [call EXCEPT ![t].phase = "done", ![t].outcome = r,
                                        ![t].got = got]
                /\ UNCHANGED <<client, loginsOk>>
    /\ UNCHANGED <<ctor, ctorArgs, ctorLog, ctorGot, pure, ncalls>>

\* line 498, then lines 468-478 of the nested call: the resubmission
Resubmit(t) ==
    /\ call[t].phase = "resubmit"
    /\ LET args == ResubmitArgs(call[t].frame)
           p == Post("submit", args, client)
       IN  IF p.ok
           THEN call' = [call EXCEPT ![t].phase = "wait", ![t].frame = args,
                                     ![t].depth = @ + 1,
                                     ![t].sent = Append(@, p.request)]
           ELSE call' = [call EXCEPT ![t].phase = "done", ![t].frame = args,
                                     ![t].depth = @ + 1,
                                     ![t].outcome = Raise("AttributeError")]
    /\ UNCHANGED <<client, ctor, ctorArgs, ctorLog, ctorGot, pure, ncalls, loginsOk>>

\* the caller has the outcome; the thread may call again
Finish(t) ==
    /\ call[t].phase = "done"
    /\ call' = [call EXCEPT ![t] = IdleCall]
    /\ UNCHANGED <<client, ctor, ctorArgs, ctorLog, ctorGot, pure, ncalls, loginsOk>>

Next ==
    \/ \E u \in Usernames, p \in Passwords, s \in SuppliedSessionIds :
           Construct(u, p, s)
    \/ \E r \in Replies : ConstructLoginReply(r)
    \/ \E req \in Requests, retry \in BOOLEAN, auth \in BOOLEAN :
           Submit(MainThread, req, retry, auth)
    \/ \E r \in Replies : Reply(MainThread, r)
    \/ \E r \in Replies : LoginReply(MainThread, r)
    \/ Resubmit(MainThread)
    \/ Finish(MainThread)

Spec == Init /\ [][Next]_vars

TypeOK ==
    /\ ctor \in {"new", "login", "ready", "failed"}
    /\ ncalls \in 0..MaxCalls
    /\ \A t \in Threads :
           call[t].phase \in {"idle", "wait", "login", "store", "resubmit", "done"}

-----------------------------------------------------------------------------
(* Vocabulary of the claims: what was sent and what came back, read off    *)
(* the wire rather than off the submitter's own classification             *)

ReqCount(t, kind) ==
    Cardinality({i \in DOMAIN call[t].sent : call[t].sent[i].kind = kind})

Active(t) == call[t].phase # "idle"

\* the n-th reply is a response document with an Envelope.Body mapping
IsResponse(sm) == sm.exc = "" /\ sm.status = 200 /\ IsMap(sm.body)

\* the n-th reply is a transport-level failure
TransportFailed(sm) == sm.exc # "" \/ sm.status \notin 200..299

\* the texts that equal "true" or "success" when case is ignored
SuccessTexts ==
    {"true", "TRUE", "True", "tRuE", "success", "SUCCESS", "Success"}

Child(d, k) == IF IsMap(d) /\ HasKey(d, k) THEN Item(d, k) ELSE PyNone

Succeeded(body) ==
    LET v == Child(Child(body, "RESULT"), "SUCCESS")
    IN  IsStr(v) /\ v.str \in SuccessTexts

\* Fault.detail.error.errorid, None when absent
ErrorIdOf(body) ==
    Child(Child(Child(Child(body, "Fault"), "detail"), "error"), "errorid")

\* a failure response carrying errorid 140
Expired(sm) ==
    IsResponse(sm) /\ ~Succeeded(sm.body) /\ ErrorIdOf(sm.body) = PyStr("140")

\* the session id a login response carries, None when absent
SessionIdOf(body) == Child(Child(body, "RESULT"), "SESSIONID")

-----------------------------------------------------------------------------
(* Claims *)

C1Case(t) ==
    /\ Active(t)
    /\ ~call[t].ext.auth
    /\ call[t].ext.retry
    /\ Len(call[t].got) >= 1
    /\ Expired(call[t].got[1])

\* C1: a non-auth submit with allowRetry whose first response is a failure
\* with errorid 140 performs exactly one login exchange, to the bare
\* endpoint; the session id that exchange returns is stored and the original
\* payload is then submitted exactly once more, with allowRetry false; the
\* caller receives the outcome of that second attempt.
C1_ExpiredSessionRetry ==
    \A t \in Threads : C1Case(t) =>
        LET c == call[t] IN
        /\ ReqCount(t, "login") = 1
        /\ c.sent[2].kind = "login"
        /\ c.sent[2].url = Endpoint
        /\ (c.loginRet # NoValue /\ c.phase = "resubmit")
               => client.sessionid = c.loginRet
        /\ (c.loginRet # NoValue /\ c.phase \in {"wait", "done"})
               => /\ Len(c.sent) = 3
                  /\ c.sent[3].kind = "submit"
                  /\ c.sent[3].body = c.sent[1].body
                  /\ ~c.sent[3].retry
        /\ (c.loginRet # NoValue /\ c.phase = "done")
               => /\ Len(c.got) = 3
                  /\ c.outcome = c.got[3].out

C2Bound(t) ==
    LET c == call[t] IN
    /\ Len(c.sent) <= 3
    /\ c.depth <= 1
    /\ ReqCount(t, "login") <= 1
    /\ \A i \in DOMAIN c.sent : i >= 2 => ~c.sent[i].retry

C2Rank(c) ==
    Len(c.sent) + Len(c.got) + c.depth + (IF c.phase = "done" THEN 1 ELSE 0)

\* C2: whatever the transport returns, one external call performs at most 3
\* round trips (first attempt, at most one re-login, at most one
\* resubmission), enters the retry path at most once, the login exchange and
\* the resubmission running with allowRetry false, and it terminates: every
\* step of the call increases a measure that is bounded.
C2_BoundedRoundTrips ==
    /\ [](\A t \in Threads : C2Bound(t))
    /\ [][\A t \in Threads :
             (call[t]' # call[t] /\ call[t]'.phase # "idle")
                 => /\ C2Rank(call[t]') > C2Rank(call[t])
                    /\ C2Rank(call[t]') <= 8]_vars

C2_Witness ==
    \E t \in Threads :
        /\ call[t].phase = "done"
        /\ Len(call[t].sent) = 3
        /\ call[t].depth = 1

C3Case(t) ==
    /\ call[t].phase = "done"
    /\ call[t].ext.retry
    /\ \A i \in DOMAIN call[t].got : Expired(call[t].got[i])

\* C3 as stated: when every reply is an errorid-140 fault, a submit with
\* allowRetry performs exactly one re-login and exactly one resubmission and
\* surfaces what the second attempt returned.
C3_Original ==
    \A t \in Threads : C3Case(t) =>
        LET c == call[t] IN
        /\ ReqCount(t, "login") = 1
        /\ ReqCount(t, "submit") = 2
        /\ c.depth = 1
        /\ Len(c.got) = 3
        /\ c.outcome = c.got[3].out

\* C3 amended: when every reply is an errorid-140 fault, a submit with
\* allowRetry by a client holding credentials performs exactly one re-login
\* attempt, which fails because its own reply is that fault
\* (AuthenticationFailed when the reply carries a RESULT sub-tree), and no
\* resubmission; it never recurses and the session id is left as it was.
C3_Amended ==
    \A t \in Threads : (C3Case(t) /\ HasCredentials(client)) =>
        LET c == call[t] IN
        /\ ReqCount(t, "login") = 1
        /\ ReqCount(t, "submit") = 1
        /\ Len(c.sent) = 2
        /\ c.depth = 0
        /\ c.outcome.kind = "raise"
        /\ HasKey(c.got[2].body, "RESULT") => c.outcome = Raise("AuthException")
        /\ client.sessionid = c.tok0

C3_Witness ==
    \E t \in Threads :
        /\ C3Case(t)
        /\ HasCredentials(client)
        /\ Len(call[t].got) = 2
        /\ call[t].outcome = Raise("AuthException")

C4Case(t) ==
    /\ Active(t)
    /\ ~call[t].ext.auth
    /\ Len(call[t].got) >= 1
    /\ IsResponse(call[t].got[1])
    /\ ~Succeeded(call[t].got[1].body)
    /\ IsStr(ErrorIdOf(call[t].got[1].body))
    /\ ErrorIdOf(call[t].got[1].body) # PyStr("140")

\* C4: a non-auth submit whose first response is a failure with an errorid
\* other than 140 raises ResponseException carrying the Fault sub-tree at
\* once: no login exchange, no second request, session id unchanged.
C4_OtherFaultRaises ==
    \A t \in Threads : C4Case(t) =>
        LET c == call[t] IN
        /\ c.phase = "done"
        /\ c.outcome = RaiseFault(Item(c.got[1].body, "Fault"))
        /\ ReqCount(t, "login") = 0
        /\ Len(c.sent) = 1
        /\ client.sessionid = c.tok0

C4_Witness ==
    \E t \in Threads :
        /\ C4Case(t)
        /\ call[t].ext.retry
        /\ call[t].outcome.kind = "raise"
        /\ call[t].outcome.exc = "ResponseException"

\* C5: the session id changes only in a step in which a login exchange
\* succeeds (in the constructor or on the expired-session retry); every
\* other step leaves it as it was.
C5_TokenChangesOnlyOnLogin ==
    [][(ctor # "new" /\ client'.sessionid # client.sessionid)
           => loginsOk' = loginsOk + 1]_vars


\* C6: on the expired-session retry the resubmission dispatches a body
\* identical to the body of the first attempt, for a payload tree and for a
\* pre-formed raw XML document alike.
C6_ResubmitSameBody ==
    \A t \in Threads : (call[t].depth >= 1 /\ Truthy(call[t].loginRet)) =>
        LET c == call[t] IN
        /\ ReqCount(t, "submit") = 2
        /\ c.sent[Len(c.sent)].kind = "submit"
        /\ c.sent[Len(c.sent)].body = c.sent[1].body

\* the reply to the login exchange of a retry, when it is a response document
C7Case(t) ==
    /\ Len(call[t].sent) >= 2
    /\ call[t].sent[2].kind = "login"
    /\ Len(call[t].got) >= 2
    /\ IsResponse(call[t].got[2])

\* C7: the login exchange returns the SESSIONID of its response when the
\* submission succeeded and the identifier is present and not empty; for
\* every other login response it raises AuthException and returns no token.
C7_LoginOutcome ==
    \A t \in Threads : C7Case(t) =>
        LET c == call[t]
            body == c.got[2].body
        IN  IF Succeeded(body) /\ Truthy(SessionIdOf(body))
            THEN c.loginRet = SessionIdOf(body)
            ELSE /\ c.loginRet = NoValue
                 /\ c.phase = "done"
                 /\ c.outcome = Raise("AuthException")

\* the last reply of a finished call answers a non-auth submission, is a
\* failure response, and did not take the retry branch
C8Case(t) ==
    LET c == call[t]
        n == Len(c.got)
    IN  /\ c.phase = "done"
        /\ n >= 1
        /\ Len(c.sent) = n
        /\ c.sent[n].kind = "submit"
        /\ ~c.sent[n].auth
        /\ IsResponse(c.got[n])
        /\ ~Succeeded(c.got[n].body)
        /\ ~(ErrorIdOf(c.got[n].body) = PyStr("140") /\ c.sent[n].retry)

\* C8: every failure response to a non-auth submit that the 140 retry does
\* not recover surfaces as ResponseException carrying the Fault sub-tree,
\* also when errorid is absent and when RESULT.SUCCESS is absent.
C8_FailureRaisesFault ==
    \A t \in Threads : C8Case(t) =>
        LET c == call[t]
            body == c.got[Len(c.got)].body
        IN  /\ c.outcome.kind = "raise"
            /\ c.outcome.exc = "ResponseException"
            /\ c.outcome.fault = Child(body, "Fault")

C10Url(r) ==
    IF r.auth THEN r.url = Endpoint
    ELSE r.url = Endpoint \o ";jsessionid=" \o PyFormat(r.sessionid)

\* C10: every request with isAuthRequest set is posted to the bare endpoint
\* URL, every other request to <endpoint>;jsessionid=<token>, the token
\* being the session id the client holds when the request is dispatched.
C10_RequestUrl ==
    /\ \A i \in DOMAIN ctorLog : C10Url(ctorLog[i])
    /\ \A t \in Threads : \A i \in DOMAIN call[t].sent : C10Url(call[t].sent[i])

C10_Witness ==
    \E t \in Threads :
        /\ Len(call[t].sent) = 3
        /\ call[t].sent[2].url = Endpoint
        /\ call[t].sent[1].url = Endpoint \o ";jsessionid=old"
        /\ call[t].sent[3].url = Endpoint \o ";jsessionid=abc123"

\* the i-th reply of a call answers a request with isAuthRequest set, is a
\* failure response, and does not take the retry branch
C11Case(t, i) ==
    LET c == call[t] IN
    /\ i <= Len(c.sent)
    /\ c.sent[i].auth
    /\ IsResponse(c.got[i])
    /\ ~Succeeded(c.got[i].body)
    /\ ~(ErrorIdOf(c.got[i].body) = PyStr("140") /\ c.sent[i].retry)

\* C11: a request with isAuthRequest set whose failure response does not take
\* the retry branch raises nothing and returns the failed response with
\* success = false, with or without a RESULT sub-tree in the response.
C11_AuthFailureSuppressed ==
    \A t \in Threads : \A i \in DOMAIN call[t].got : C11Case(t, i) =>
        LET out == call[t].got[i].out
            body == call[t].got[i].body
        IN  /\ out.kind = "return"
            /\ ~out.success
            /\ out.result \in {body, Child(body, "RESULT")}

\* RESULT.SUCCESS, "false" when RESULT or SUCCESS is absent
C12SuccessValue(body) ==
    LET v == Child(Child(body, "RESULT"), "SUCCESS")
    IN  IF IsStr(v) THEN v.str ELSE "false"

\* C12: a response is classified as success exactly when RESULT.SUCCESS,
\* taken as "false" when RESULT or SUCCESS is absent, equals "true" or
\* "success" with case ignored; "FALSE", "1", "yes" and "" are failures.
C12_SuccessClassification ==
    \A t \in Threads : \A i \in DOMAIN call[t].got :
        IsResponse(call[t].got[i]) =>
            LET out == call[t].got[i].out
                body == call[t].got[i].body
            IN  (out.kind = "return" /\ out.success)
                    <=> C12SuccessValue(body) \in SuccessTexts

C12_Witness ==
    \E t \in Threads : \E i \in DOMAIN call[t].got :
        /\ IsResponse(call[t].got[i])
        /\ C12SuccessValue(call[t].got[i].body) = "tRuE"
        /\ call[t].got[i].out.kind = "return"
        /\ call[t].got[i].out.success

\* the arguments of __init__ hold a token: a non-empty session id
C13Supplied == IsStr(ctorArgs.sessionid) /\ ctorArgs.sessionid.str # ""

\* the arguments of __init__ hold credentials: a username and a password
C13Credentials ==
    /\ IsStr(ctorArgs.username) /\ ctorArgs.username.str # ""
    /\ IsStr(ctorArgs.password) /\ ctorArgs.password.str # ""

\* C13: construction performs exactly one login exchange when no token is
\* supplied and credentials are present, and the token is then the
\* identifier that exchange returned; with a token supplied it performs no
\* round trip and the token is that value; without credentials it performs
\* no round trip, does not fail, and the token stays as supplied (absent
\* when none was).
C13_Construction ==
    ctor # "new" =>
        IF C13Supplied
        THEN /\ ctor = "ready"
             /\ ctorLog = <<>>
             /\ ncalls = 0 => client.sessionid = ctorArgs.sessionid
        ELSE IF ~C13Credentials
        THEN /\ ctor = "ready"
             /\ ctorLog = <<>>
             /\ ncalls = 0 => client.sessionid = PyNone
        ELSE /\ Len(ctorLog) = 1
             /\ ctorLog[1].kind = "login"
             /\ ctorLog[1].url = Endpoint
             /\ (ctor = "ready" /\ ncalls = 0)
                    => /\ Len(ctorGot) = 1
                       /\ client.sessionid = SessionIdOf(ctorGot[1].body)

C13_Witness ==
    /\ ctor = "ready"
    /\ ~C13Supplied
    /\ C13Credentials
    /\ Len(ctorLog) = 1
    /\ client.sessionid = PyStr("abc123")

-----------------------------------------------------------------------------
(* API._sanitize_columns_in_api_result applied on its own *)

\* the largest number of COLUMN entries of a result
MaxColumns == 3

\* the number of times the post-processing is applied to a result
MaxPasses == 2

\* the variables of the client, which a function applied on its own leaves alone
apiVars == <<client, ctor, ctorArgs, ctorLog, ctorGot, call, ncalls, loginsOk>>

ColumnNames == {"a", "b", "COLUMN"}

ColumnValues == {"1", "2", ""}

\* one decoded <COLUMN><NAME>..</NAME><VALUE>..</VALUE></COLUMN>
Column(name, value) ==
    PyMap(<< <<"NAME", PyStr(name)>>, <<"VALUE", PyStr(value)>> >>)

Columns == {Column(n, v) : n \in ColumnNames, v \in ColumnValues}

\* the values of the COLUMNS key of a result: an empty element, a mapping
\* without COLUMN, one COLUMN, several of them
ColumnsValues ==
    {PyStr(""), EmptyDict}
        \cup {PyMap(<< <<"COLUMN", c>> >>) : c \in Columns}
        \cup {PyMap(<< <<"COLUMN", PyList(cs)>> >>) :
                 cs \in UNION {[1..k -> Columns] : k \in 1..MaxColumns}}

\* the RESULT sub-trees handed to the post-processing
ColumnResults ==
    {EmptyDict, PyMap(<< <<"SUCCESS", PyStr("TRUE")>> >>)}
        \cup {PyMap(<< <<"COLUMNS", c>> >>) : c \in ColumnsValues}
        \cup {PyMap(<< <<"SUCCESS", PyStr("TRUE")>>, <<"COLUMNS", c>>,
                       <<"EMAIL", PyStr("e")>> >>) : c \in ColumnsValues}

ColumnsInit ==
    /\ Init!1 /\ Init!2 /\ Init!3 /\ Init!4 /\ Init!5
    /\ Init!7 /\ Init!8 /\ Init!9
    /\ pure \in {[data |-> d, passes |-> <<>>] : d \in ColumnResults}

\* the result the next pass works on
PassInput ==
    IF pure.passes = <<>> THEN pure.data
    ELSE pure.passes[Len(pure.passes)].result

\* lines 420-445: one more pass over the result of the pass before
Sanitize ==
    /\ Len(pure.passes) < MaxPasses
    /\ pure.passes # <<>> => pure.passes[Len(pure.passes)].kind = "return"
    /\ pure' = [pure EXCEPT
                   !.passes = Append(@, sanitize_columns_in_api_result(PassInput))]
    /\ UNCHANGED apiVars

ColumnsNext == Sanitize

ColumnsSpec == ColumnsInit /\ [][ColumnsNext]_vars

\* COLUMNS.COLUMN of the result is one mapping {NAME, VALUE}
C14Single(d) ==
    /\ IsMap(Child(d, "COLUMNS"))
    /\ Child(Child(d, "COLUMNS"), "COLUMN") \in Columns

\* COLUMNS.COLUMN of the result is a sequence of mappings {NAME, VALUE}
C14Sequence(d) ==
    /\ IsMap(Child(d, "COLUMNS"))
    /\ IsList(Child(Child(d, "COLUMNS"), "COLUMN"))

\* the result has no COLUMNS.COLUMN path
C14NoPath(d) ==
    \/ ~HasKey(d, "COLUMNS")
    \/ ~IsMap(Item(d, "COLUMNS"))
    \/ ~HasKey(Item(d, "COLUMNS"), "COLUMN")

\* flat is the mapping NAME -> VALUE of the sequence cs: one entry per
\* distinct NAME, holding the VALUE of the last column of that NAME
C14Flat(flat, cs) ==
    /\ IsMap(flat)
    /\ {flat.map[i][1] : i \in DOMAIN flat.map}
           = {Item(cs[j], "NAME").str : j \in DOMAIN cs}
    /\ Len(flat.map) = Cardinality({Item(cs[j], "NAME").str : j \in DOMAIN cs})
    /\ \A i \in DOMAIN flat.map :
           \E j \in DOMAIN cs :
               /\ Item(cs[j], "NAME").str = flat.map[i][1]
               /\ Item(cs[j], "VALUE") = flat.map[i][2]
               /\ \A l \in DOMAIN cs :
                      l > j => Item(cs[l], "NAME") # Item(cs[j], "NAME")

\* the trees a and b differ at most in the value of COLUMNS
C14SameButColumns(a, b) ==
    /\ IsMap(a) /\ IsMap(b)
    /\ Len(a.map) = Len(b.map)
    /\ \A i \in DOMAIN a.map :
           /\ a.map[i][1] = b.map[i][1]
           /\ a.map[i][1] # "COLUMNS" => a.map[i][2] = b.map[i][2]

\* C14: the post-processing replaces COLUMNS by the flat mapping NAME ->
\* VALUE when COLUMNS.COLUMN is one mapping {NAME, VALUE} (one entry) and
\* when it is a sequence of them (one entry per distinct NAME); a result
\* without a COLUMNS.COLUMN path is returned unchanged.
C14_ColumnsFlattened ==
    Len(pure.passes) >= 1 =>
        LET d == pure.data
            out == pure.passes[1]
        IN  /\ C14Single(d) =>
                /\ out.kind = "return"
                /\ C14SameButColumns(d, out.result)
                /\ C14Flat(Item(out.result, "COLUMNS"),
                           <<Item(Item(d, "COLUMNS"), "COLUMN")>>)
            /\ C14Sequence(d) =>
                /\ out.kind = "return"
                /\ C14SameButColumns(d, out.result)
                /\ C14Flat(Item(out.result, "COLUMNS"),
                           Item(Item(d, "COLUMNS"), "COLUMN").list)
            /\ C14NoPath(d) =>
                /\ out.kind = "return"
                /\ out.result = d

\* the result has no, one or several COLUMNS.COLUMN entries, and its
\* COLUMNS, when present, is a mapping
C15Case(d) ==
    \/ C14Single(d)
    \/ C14Sequence(d)
    \/ ~HasKey(d, "COLUMNS")
    \/ IsMap(Item(d, "COLUMNS")) /\ ~HasKey(Item(d, "COLUMNS"), "COLUMN")

\* C15: the post-processing is idempotent: for a result with no, one or
\* several COLUMNS.COLUMN entries, whatever the names and the values of the
\* columns, the first pass returns, and a second pass over what it returned
\* returns the same tree.
C15_Idempotent ==
    C15Case(pure.data) =>
        /\ Len(pure.passes) >= 1 => pure.passes[1].kind = "return"
        /\ Len(pure.passes) >= 2 => pure.passes[2] = pure.passes[1]

-----------------------------------------------------------------------------
(* The codec applied on its own: encode a tree, decode the document *)

\* the largest number of items of a sequence value
MaxItems == 3

CodecScalars == {PyStr("a"), PyStr(""), PyInt(7)}

CodecLeaves == CodecScalars \cup {EmptyDict}

CodecKeys == {"K", "L"}

\* the mappings with one or two of the keys, in either order, over values
MapsOver(values) ==
    {PyMap(<< <<k, v>> >>) : k \in CodecKeys, v \in values}
        \cup {PyMap(<< <<p[1], v>>, <<p[2], w>> >>) :
                 p \in {q \in CodecKeys \X CodecKeys : q[1] # q[2]},
                 v \in values, w \in values}

\* trees of mappings and scalars, empty mappings at every depth
CodecTrees ==
    CodecLeaves
        \cup MapsOver(CodecLeaves)
        \cup {PyMap(<< <<k, v>> >>) :
                 k \in CodecKeys, v \in MapsOver(CodecLeaves)}

CodecItems == {PyStr("a"), PyStr("b"), PyMap(<< <<"M", PyStr("x")>> >>)}

CodecLists ==
    {PyList(items) : items \in UNION {[1..n -> CodecItems] : n \in 1..MaxItems}}

\* mappings whose key K holds a sequence, alone or next to a scalar
CodecSequences ==
    {PyMap(<< <<"K", l>> >>) : l \in CodecLists}
        \cup {PyMap(<< <<"L", PyStr("a")>>, <<"K", l>> >>) : l \in CodecLists}

CodecInit ==
    /\ Init!1 /\ Init!2 /\ Init!3 /\ Init!4 /\ Init!5
    /\ Init!7 /\ Init!8 /\ Init!9
    /\ pure \in {[key |-> "X", value |-> v, xml |-> NoValue, decoded |-> NoValue] :
                    v \in CodecTrees \cup CodecSequences}

\* encode(root_key, value)
Encode ==
    /\ pure.xml = NoValue
    /\ pure' = [pure EXCEPT !.xml = EncodeElement(pure.key, pure.value)]
    /\ UNCHANGED apiVars

\* decode(document)
Decode ==
    /\ pure.xml # NoValue
    /\ pure.decoded = NoValue
    /\ pure' = [pure EXCEPT !.decoded = ConvertXmlToDict(pure.xml)]
    /\ UNCHANGED apiVars

CodecNext == Encode \/ Decode

CodecSpec == CodecInit /\ [][CodecNext]_vars

\* the decoded form of a scalar: its text
C16Text(v) == IF IsMap(v) THEN v ELSE PyStr(PyFormat(v))

\* C16: a mapping whose key K holds a sequence of n items, encoded and then
\* decoded, holds under K the sequence of the n items in order when n >= 2
\* and the bare item, not a sequence of one, when n = 1.
C16_SequenceAmbiguity ==
    (pure.value \in CodecSequences /\ pure.decoded # NoValue) =>
        LET items == Item(pure.value, "K").list
            back == Child(Child(pure.decoded, pure.key), "K")
        IN  IF Len(items) >= 2
            THEN /\ IsList(back)
                 /\ Len(back.list) = Len(items)
                 /\ \A i \in DOMAIN items : back.list[i] = C16Text(items[i])
            ELSE back = C16Text(items[1])

C16_Witness ==
    /\ pure.value \in CodecSequences
    /\ pure.decoded # NoValue
    /\ Len(Item(pure.value, "K").list) = 1
    /\ IsStr(Child(Child(pure.decoded, pure.key), "K"))

RECURSIVE C17Strings(_)
\* v with each scalar replaced by its string form
C17Strings(v) ==
    IF IsMap(v)
    THEN PyMap([i \in DOMAIN v.map |-> <<v.map[i][1], C17Strings(v.map[i][2])>>])
    ELSE PyStr(PyFormat(v))

RECURSIVE C17EmptyAsText(_)
\* v with each scalar replaced by its string form and each empty mapping
\* by the empty string
C17EmptyAsText(v) ==
    IF IsMap(v) /\ Len(v.map) > 0
    THEN PyMap([i \in DOMAIN v.map |->
                   <<v.map[i][1], C17EmptyAsText(v.map[i][2])>>])
    ELSE IF IsMap(v) THEN PyStr("")
    ELSE PyStr(PyFormat(v))

\* C17 as stated: for every tree v of mappings and scalars, empty mappings
\* at any depth included, decode(encode(k, v)) is the mapping {k: v} with
\* each scalar replaced by its string form, key order preserved.
C17_Original ==
    (pure.value \in CodecTrees /\ pure.decoded # NoValue) =>
        pure.decoded = PyMap(<< <<pure.key, C17Strings(pure.value)>> >>)

\* C17 amended: for every tree v of mappings and scalars,
\* decode(encode(k, v)) is the mapping {k: v} with each scalar replaced by
\* its string form and each empty mapping replaced by the empty string,
\* key order preserved.
C17_Amended ==
    (pure.value \in CodecTrees /\ pure.decoded # NoValue) =>
        pure.decoded = PyMap(<< <<pure.key, C17EmptyAsText(pure.value)>> >>)

C17_Witness ==
    /\ pure.value = PyMap(<< <<"K", PyMap(<< <<"L", EmptyDict>>,
                                              <<"K", PyInt(7)>> >>)>> >>)
    /\ pure.decoded # NoValue
    /\ Child(Child(Child(pure.decoded, "X"), "K"), "L") = PyStr("")
    /\ Child(Child(Child(pure.decoded, "X"), "K"), "K") = PyStr("7")

\* the errors a submit call may end in: RemoteFault, AuthenticationFailed
\* and the transport errors
C18Errors == {"ResponseException", "AuthException", "HTTPError", "ConnectionError"}

\* C18: a submit call without isAuthRequest never returns a pair whose
\* success flag is false: whatever the responses, it returns (result, true)
\* or ends in RemoteFault, AuthenticationFailed or a transport error.
C18_NonAuthNeverFalse ==
    \A t \in Threads :
        (call[t].phase = "done" /\ ~call[t].ext.auth) =>
            LET out == call[t].outcome
            IN  \/ out.kind = "return" /\ out.success
                \/ out.kind = "raise" /\ out.exc \in C18Errors

\* the submission of the login exchange returned without a session id
C19NoSessionId(out) ==
    /\ out.kind = "return"
    /\ \/ ~out.success
       \/ ~Truthy(Get(out.result, "SESSIONID", PyNone))

\* the re-login of the expired-session retry of thread t has failed with
\* AuthenticationFailed
C19Case(t) ==
    LET c == call[t] IN
    /\ Active(t)
    /\ Len(c.got) >= 2
    /\ Expired(c.got[1])
    /\ c.sent[2].kind = "login"
    /\ C19NoSessionId(c.got[2].out)

\* C19: when the re-login of an expired-session retry fails with
\* AuthenticationFailed, the caller of submit gets that error, no
\* resubmission is dispatched and the session token is the one held before
\* the call.
C19_FailedReloginPropagates ==
    \A t \in Threads : C19Case(t) =>
        LET c == call[t] IN
        /\ c.phase = "done"
        /\ c.outcome = Raise("AuthException")
        /\ Len(c.sent) = 2
        /\ ReqCount(t, "submit") = 1
        /\ client.sessionid = c.tok0

C19_Witness ==
    \E t \in Threads :
        /\ C19Case(t)
        /\ call[t].phase = "done"
        /\ Truthy(call[t].tok0)

\* thread t has dispatched the resubmission of an expired-session retry
\* after a login exchange
C20Case(t) ==
    LET c == call[t] IN
    /\ Active(t)
    /\ Len(c.got) >= 2
    /\ Len(c.sent) >= 3
    /\ Expired(c.got[1])
    /\ c.sent[2].kind = "login"
    /\ c.sent[3].kind = "submit"

\* C20: on the expired-session retry the token is updated before the
\* resubmission: the resubmitted request goes to the URL carrying the token
\* the re-login returned, not the token of the first attempt.
C20_ResubmitUsesNewToken ==
    \A t \in Threads : C20Case(t) =>
        LET c == call[t]
            token == SessionIdOf(c.got[2].body)
        IN  /\ IsStr(token)
            /\ c.sent[3].url = Endpoint \o ";jsessionid=" \o token.str
            /\ token # c.tok0 => c.sent[3].url # c.sent[1].url

C20_Witness ==
    \E t \in Threads :
        /\ C20Case(t)
        /\ call[t].tok0 = PyStr("old")
        /\ SessionIdOf(call[t].got[2].body) = PyStr("abc123")
        /\ call[t].sent[1].url = Endpoint \o ";jsessionid=old"

-----------------------------------------------------------------------------
(* Two threads calling one client: no lock guards self.sessionid *)

\* a client built with credentials and a session id that has since expired
ConcClient ==
    [url |-> Endpoint, username |-> PyStr("u"), password |-> PyStr("p"),
     sessionid |-> PyStr("old")]

\* what the transport answers while the session is expired: the fault 140,
\* a login that yields one of two session ids, a plain success
ConcDocuments ==
    {Envelope(<<ResultOf(<<Leaf("SUCCESS", "FALSE")>>), FaultOf("140")>>),
     Envelope(<<ResultOf(<<Leaf("SUCCESS", "true"), Leaf("SESSIONID", "abc123")>>)>>),
     Envelope(<<ResultOf(<<Leaf("SUCCESS", "true"), Leaf("SESSIONID", "def456")>>)>>),
     Envelope(<<ResultOf(<<Leaf("SUCCESS", "TRUE")>>)>>)}

ConcReplies == {[exc |-> "", status |-> 200, content |-> d] : d \in ConcDocuments}

ConcInit ==
    /\ client = ConcClient
    /\ ctor = "ready"
    /\ ctorArgs = [username |-> ConcClient.username,
                   password |-> ConcClient.password,
                   sessionid |-> ConcClient.sessionid]
    /\ Init!4 /\ Init!5 /\ Init!6 /\ Init!7 /\ Init!8 /\ Init!9

\* lines 30-38: the reply to the re-login arrives and login() returns; the
\* value is not yet assigned to self.sessionid
LoginReturn(t, reply) ==
    /\ call[t].phase = "login"
    /\ LET args == LoginArgs(client)
           out == AfterPost(reply, args.retry, args.auth)
           r == LoginResult(out)
           got == Append(call[t].got, Summary(reply, out))
       IN  IF r.kind = "return"
           THEN /\ loginsOk' = loginsOk + 1
                /\ call' = [call EXCEPT ![t].phase = "store", ![t].got = got,
                                        ![t].loginRet = r.value,
                                        ![t].loginNo = loginsOk + 1]
           ELSE /\ call' = [call EXCEPT ![t].phase = "done", ![t].outcome = r,
                                        ![t].got = got]
                /\ UNCHANGED loginsOk
    /\ UNCHANGED <<client, ctor, ctorArgs, ctorLog, ctorGot, pure, ncalls>>

\* line 497: the assignment self.sessionid = <what login() returned>
AssignSessionId(t) ==
    /\ call[t].phase = "store"
    /\ client' = StoreToken(client, call[t].loginRet)
    /\ call' = [call EXCEPT ![t].phase = "resubmit"]
    /\ UNCHANGED <<ctor, ctorArgs, ctorLog, ctorGot, pure, ncalls, loginsOk>>

ConcNext ==
    \E t \in Threads :
        \/ \E req \in Requests, retry \in BOOLEAN, auth \in BOOLEAN :
               Submit(t, req, retry, auth)
        \/ \E r \in ConcReplies : Reply(t, r)
        \/ \E r \in ConcReplies : LoginReturn(t, r)
        \/ AssignSessionId(t)
        \/ Resubmit(t)
        \/ Finish(t)

ConcSpec == ConcInit /\ [][ConcNext]_vars

\* the call of thread t got an expired-session fault and its re-login
\* returned a session id
C21Case(t) ==
    LET c == call[t] IN
    /\ Len(c.got) >= 2
    /\ Expired(c.got[1])
    /\ c.sent[2].kind = "login"
    /\ Truthy(SessionIdOf(c.got[2].body))
    /\ c.loginNo > 0

\* C21: when two submit calls on one client overlap and both get an
\* expired-session fault, the resubmission of each call carries the token
\* its own re-login returned, and once both calls have finished the client
\* holds the token of the login exchange that completed last.
C21_OverlappingRetries ==
    (\A t \in Threads : C21Case(t)) =>
        /\ \A t \in Threads :
               Len(call[t].sent) >= 3 =>
                   call[t].sent[3].url = Endpoint \o ";jsessionid="
                                             \o SessionIdOf(call[t].got[2].body).str
        /\ (\A t \in Threads : call[t].phase = "done") =>
               \E t \in Threads :
                   /\ \A u \in Threads : call[u].loginNo <= call[t].loginNo
                   /\ client.sessionid = SessionIdOf(call[t].got[2].body)

\* C22: a pass of the post-processing changes nothing but the COLUMNS
\* entry: the tree it returns has the keys of its argument in the same
\* order, every key but COLUMNS with the value it had, and the session
\* token and the rest of the client's state are as before the pass.
C22_OnlyColumnsChange ==
    [][Len(pure'.passes) > Len(pure.passes) =>
           LET out == pure'.passes[Len(pure'.passes)]
           IN  /\ out.kind = "return" => C14SameButColumns(PassInput, out.result)
               /\ client' = client
               /\ apiVars' = apiVars
               /\ pure'.data = pure.data]_vars

C22_Witness ==
    /\ Len(pure.passes) >= 1
    /\ HasKey(pure.data, "EMAIL")
    /\ pure.passes[1].kind = "return"
    /\ pure.passes[1].result # pure.data
    /\ Item(pure.passes[1].result, "EMAIL") = PyStr("e")
    /\ Item(pure.passes[1].result, "SUCCESS") = PyStr("TRUE")

====
